---- MODULE Spec2Model ----
(***************************************************************************)
(* Model of src/src/vendors/anthropic.ts: the AnthropicAdapter class, its  *)
(* constructor, generateResponse, generateImage and sendChat, together     *)
(* with the JavaScript value semantics (truthiness, ||, ??, JSON.parse,    *)
(* JSON.stringify) those methods rely on.                                  *)
(***************************************************************************)
EXTENDS Integers, Sequences, FiniteSets, TLC

(***************************************************************************)
(* JavaScript values.  Every value is a record [t, n, s, j, f]: t is the   *)
(* result of typeof (with "null" and "array" told apart from "object"),    *)
(* n the number, s the characters of a plain string, j the characters of a *)
(* string that holds JSON text (its tokens), f the own properties of an    *)
(* object in insertion order, or the elements of an array, as records      *)
(* [k, v].                                                                 *)
(***************************************************************************)
Undefined == [t |-> "undefined", n |-> 0, s |-> "", j |-> <<>>, f |-> <<>>]
Null == [t |-> "null", n |-> 0, s |-> "", j |-> <<>>, f |-> <<>>]
Bool(b) == [t |-> "boolean", n |-> IF b THEN 1 ELSE 0, s |-> "", j |-> <<>>, f |-> <<>>]
Num(i) == [t |-> "number", n |-> i, s |-> "", j |-> <<>>, f |-> <<>>]
Str(x) == [t |-> "string", n |-> 0, s |-> x, j |-> <<>>, f |-> <<>>]
JStr(toks) == [t |-> "string", n |-> 0, s |-> "", j |-> toks, f |-> <<>>]
Prop(key, val) == [k |-> key, v |-> val]
Obj(fields) == [t |-> "object", n |-> 0, s |-> "", j |-> <<>>, f |-> fields]
Arr(elems) ==
  [t |-> "array", n |-> 0, s |-> "", j |-> <<>>,
   f |-> [i \in 1..Len(elems) |-> Prop("", elems[i])]]

\* the elements of an array, as a sequence
Elems(a) == [i \in 1..Len(a.f) |-> a.f[i].v]

\* ToBoolean: undefined, null, false, 0 and "" are falsy, every object is truthy.
Truthy(x) ==
  CASE x.t = "undefined" -> FALSE
    [] x.t = "null" -> FALSE
    [] x.t = "boolean" -> x.n = 1
    [] x.t = "number" -> x.n # 0
    [] x.t = "string" -> x.s # "" \/ x.j # <<>>
    [] OTHER -> TRUE

\* a || b
Or(a, b) == IF Truthy(a) THEN a ELSE b

\* a ?? b
Coalesce(a, b) == IF a.t \in {"undefined", "null"} THEN b ELSE a

\* typeof x === "object" && x !== null
IsNonNullObject(x) == x.t \in {"object", "array"}

\* "key" in x, for a non-null object x
HasProp(x, key) == x.t = "object" /\ \E i \in 1..Len(x.f) : x.f[i].k = key

\* x.key: undefined when x has no such property
Get(x, key) ==
  IF HasProp(x, key)
  THEN x.f[CHOOSE i \in 1..Len(x.f) : x.f[i].k = key].v
  ELSE Undefined

\* obj[key] = val: replaces the value of an existing key, else appends
SetProp(fields, key, val) ==
  IF \E i \in 1..Len(fields) : fields[i].k = key
  THEN [i \in 1..Len(fields) |->
          IF fields[i].k = key THEN Prop(key, val) ELSE fields[i]]
  ELSE Append(fields, Prop(key, val))

(***************************************************************************)
(* JSON text is a sequence of tokens [k, s, n, q]: k = "p" punctuation s,  *)
(* k = "s" a string literal with contents s, k = "q" a string literal      *)
(* whose contents are the JSON text q, k = "n" the number literal n,       *)
(* k = "w" a bare word s (null, true, false, or text that is no JSON).     *)
(***************************************************************************)
P(x) == [k |-> "p", s |-> x, n |-> 0, q |-> <<>>]
S(x) == [k |-> "s", s |-> x, n |-> 0, q |-> <<>>]
Q(toks) == [k |-> "q", s |-> "", n |-> 0, q |-> toks]
N(i) == [k |-> "n", s |-> "", n |-> i, q |-> <<>>]
W(x) == [k |-> "w", s |-> x, n |-> 0, q |-> <<>>]

ParseFail == [ok |-> FALSE, val |-> Undefined, next |-> 0]
ParseOk(v, i) == [ok |-> TRUE, val |-> v, next |-> i]

\* One JSON value starting at token i, nested as deep as the text is.
RECURSIVE ParseValue(_, _)
RECURSIVE ParseMembers(_, _, _)
RECURSIVE ParseElements(_, _, _)
ParseValue(toks, i) ==
  IF i > Len(toks) THEN ParseFail
  ELSE LET tk == toks[i] IN
    CASE tk.k = "s" -> ParseOk(Str(tk.s), i + 1)
      [] tk.k = "q" -> ParseOk(JStr(tk.q), i + 1)
      [] tk.k = "n" -> ParseOk(Num(tk.n), i + 1)
      [] tk.k = "w" ->
           CASE tk.s = "null" -> ParseOk(Null, i + 1)
             [] tk.s = "true" -> ParseOk(Bool(TRUE), i + 1)
             [] tk.s = "false" -> ParseOk(Bool(FALSE), i + 1)
             [] OTHER -> ParseFail
      [] tk = P("[") ->
           IF i + 1 <= Len(toks) /\ toks[i + 1] = P("]")
           THEN ParseOk(Arr(<<>>), i + 2)
           ELSE ParseElements(toks, i + 1, <<>>)
      [] tk = P("{") ->
           IF i + 1 <= Len(toks) /\ toks[i + 1] = P("}")
           THEN ParseOk(Obj(<<>>), i + 2)
           ELSE ParseMembers(toks, i + 1, <<>>)
      [] OTHER -> ParseFail

\* "key" : value ( , "key" : value )* }
ParseMembers(toks, i, acc) ==
  IF i + 1 > Len(toks) \/ toks[i].k # "s" \/ toks[i + 1] # P(":") THEN ParseFail
  ELSE LET r == ParseValue(toks, i + 2) IN
    IF ~r.ok \/ r.next > Len(toks) THEN ParseFail
    ELSE LET fields == SetProp(acc, toks[i].s, r.val) IN
      CASE toks[r.next] = P("}") -> ParseOk(Obj(fields), r.next + 1)
        [] toks[r.next] = P(",") -> ParseMembers(toks, r.next + 1, fields)
        [] OTHER -> ParseFail

\* value ( , value )* ]
ParseElements(toks, i, acc) ==
  LET r == ParseValue(toks, i) IN
    IF ~r.ok \/ r.next > Len(toks) THEN ParseFail
    ELSE LET elems == Append(acc, r.val) IN
      CASE toks[r.next] = P("]") -> ParseOk(Arr(elems), r.next + 1)
        [] toks[r.next] = P(",") -> ParseElements(toks, r.next + 1, elems)
        [] OTHER -> ParseFail

\* JSON.parse(text): ok = FALSE stands for the SyntaxError it throws.
JSONparse(toks) ==
  LET r == ParseValue(toks, 1) IN
    IF r.ok /\ r.next = Len(toks) + 1 THEN [ok |-> TRUE, val |-> r.val]
    ELSE [ok |-> FALSE, val |-> Undefined]

\* JSON.stringify(value): a property whose value is undefined is left out,
\* an undefined array element is written as null.
RECURSIVE JSONstringify(_)
RECURSIVE StringifyList(_, _, _)
JSONstringify(x) ==
  CASE x.t = "string" -> IF x.j # <<>> THEN <<Q(x.j)>> ELSE <<S(x.s)>>
    [] x.t = "number" -> <<N(x.n)>>
    [] x.t = "boolean" -> <<W(IF x.n = 1 THEN "true" ELSE "false")>>
    [] x.t = "array" -> <<P("[")>> \o StringifyList(x.f, 1, FALSE) \o <<P("]")>>
    [] x.t = "object" ->
         <<P("{")>>
         \o StringifyList(SelectSeq(x.f, LAMBDA p : p.v.t # "undefined"), 1, TRUE)
         \o <<P("}")>>
    [] OTHER -> <<W("null")>>

StringifyList(fields, i, keyed) ==
  IF i > Len(fields) THEN <<>>
  ELSE (IF i > 1 THEN <<P(",")>> ELSE <<>>)
       \o (IF keyed THEN <<S(fields[i].k), P(":")>> ELSE <<>>)
       \o JSONstringify(fields[i].v)
       \o StringifyList(fields, i + 1, keyed)

(***************************************************************************)
(* The adapter.  A message is [role, content] with content a string or an  *)
(* array of content blocks; a content block, a tool definition and a       *)
(* vendor block are objects.                                               *)
(***************************************************************************)
DefaultMaxTokens == 1024

AnthropicSignature == "anthropic"

ImageNotSupported == "Image generation not supported by Anthropic"

NotAFunction == "TypeError: adapter.sendMCPChat is not a function"

TextBlock(t) == Obj(<<Prop("type", Str("text")), Prop("text", t)>>)

ThinkingBlock(r, sig) ==
  Obj(<<Prop("type", Str("thinking")), Prop("thinking", r), Prop("signature", sig)>>)

ToolUseBlock(name, input) ==
  Obj(<<Prop("type", Str("tool_use")), Prop("name", name), Prop("input", input)>>)

\* constructor(config, modelConfig): the two rates are kept only together
Constructor(mc) ==
  LET both == Truthy(mc.inputTokenCost) /\ Truthy(mc.outputTokenCost) IN
    [isVisionCapable |-> mc.isVision,
     isImageGenerationCapable |-> mc.isImageGeneration,
     isThinkingCapable |-> mc.isThinking,
     inputTokenCost |-> IF both THEN mc.inputTokenCost ELSE Undefined,
     outputTokenCost |-> IF both THEN mc.outputTokenCost ELSE Undefined]

\* the reduce callback: text and thinking blocks are pushed, the rest is not
RECURSIVE MappedContent(_, _)
MappedContent(blocks, i) ==
  IF i > Len(blocks) THEN <<>>
  ELSE LET block == blocks[i] IN
    (CASE Get(block, "type") = Str("text") ->
            <<TextBlock(Get(block, "text"))>>
       [] Get(block, "type") = Str("thinking") ->
            <<ThinkingBlock(Get(block, "thinking"), Get(block, "signature"))>>
       [] OTHER -> <<>>)
    \o MappedContent(blocks, i + 1)

\* variant: the content blocks are sent as they are given, nothing is dropped
FormatMessageUnfiltered(msg) ==
  [role |-> IF msg.role = "assistant" THEN "assistant" ELSE "user", content |-> msg.content]

\* the messages.map callback
FormatMessage(msg) ==
  LET role == IF msg.role = "assistant" THEN "assistant" ELSE "user" IN
    IF msg.content.t = "string" THEN [role |-> role, content |-> msg.content]
    ELSE LET mappedContent == MappedContent(Elems(msg.content), 1) IN
      [role |-> role,
       content |-> IF Len(mappedContent) > 0 THEN Arr(mappedContent)
                   ELSE JStr(JSONstringify(msg.content))]

FormattedMessages(messages) ==
  [i \in 1..Len(messages) |-> FormatMessage(messages[i])]

\* variant: maxTokens is sent as given, without the || 1024
MaxTokensSentNoDefault(options) == options.maxTokens

\* max_tokens: maxTokens || 1024
MaxTokensSent(options) ==
  Or(options.maxTokens, Num(DefaultMaxTokens))

\* budget_tokens: budgetTokens || Math.floor((maxTokens || 1024) / 2)
BudgetSent(options) ==
  Or(options.budgetTokens, Num(MaxTokensSent(options).n \div 2))

\* variant: thinkingMode alone decides, the capability flag is not consulted
ThinkingHonoredAnyModel(adapter, options) == Truthy(options.thinkingMode)

\* thinkingMode && this.isThinkingCapable
ThinkingHonored(adapter, options) ==
  Truthy(options.thinkingMode) /\ adapter.isThinkingCapable

\* the argument of this.client.messages.create; thinking and tools are
\* undefined when the spread adds no such key
CreateParams(adapter, options) ==
  [model |-> options.model,
   messages |-> FormattedMessages(options.messages),
   system |-> options.systemPrompt,
   max_tokens |-> MaxTokensSent(options),
   thinking |-> IF ThinkingHonored(adapter, options)
                THEN Obj(<<Prop("type", Str("enabled")),
                           Prop("budget_tokens", BudgetSent(options))>>)
                ELSE Undefined,
   tools |-> IF Truthy(options.tools) THEN options.tools ELSE Undefined]

\* computeResponseCost(tokens, cost) of ../utils: tokens * (rate / 1_000_000),
\* counted here in millionths of the rate's unit
ComputeResponseCost(tokens, cost) == tokens * cost

UsageComputed(adapter, response) ==
  /\ Truthy(response.usage.input_tokens)
  /\ Truthy(response.usage.output_tokens)
  /\ Truthy(adapter.inputTokenCost)
  /\ Truthy(adapter.outputTokenCost)

UsageOf(adapter, response) ==
  IF UsageComputed(adapter, response)
  THEN LET inputCost == ComputeResponseCost(response.usage.input_tokens.n,
                                            adapter.inputTokenCost.n)
           outputCost == ComputeResponseCost(response.usage.output_tokens.n,
                                             adapter.outputTokenCost.n)
       IN Obj(<<Prop("inputCost", Num(inputCost)),
                Prop("outputCost", Num(outputCost)),
                Prop("totalCost", Num(inputCost + outputCost))>>)
  ELSE Undefined

\* JSON.stringify at top level gives undefined for undefined
StringifyTop(x) == IF x.t = "undefined" THEN Undefined ELSE JStr(JSONstringify(x))

\* the for loop over response.content
RECURSIVE ContentBlocks(_, _)
ContentBlocks(blocks, i) ==
  IF i > Len(blocks) THEN <<>>
  ELSE LET block == blocks[i] IN
    (CASE Get(block, "type") = Str("thinking") ->
            <<ThinkingBlock(Get(block, "thinking"), Str(AnthropicSignature))>>
       [] Get(block, "type") = Str("text") ->
            <<TextBlock(Get(block, "text"))>>
       [] Get(block, "type") = Str("tool_use") ->
            <<ToolUseBlock(Get(block, "name"), StringifyTop(Get(block, "input")))>>
       [] OTHER -> <<>>)
    \o ContentBlocks(blocks, i + 1)

\* the AIResponse generateResponse returns for a vendor response
\* variant: tool_use blocks of the response are skipped like unknown ones
AIResponseOfNoToolUse(adapter, response) ==
  [role |-> "assistant",
   content |->
     Arr(ContentBlocks(
           SelectSeq(Elems(response.content), LAMBDA b : Get(b, "type") # Str("tool_use")), 1)),
   usage |-> UsageOf(adapter, response)]

\* the value generateResponse returns for a vendor response
AIResponseOf(adapter, response) ==
  [role |-> "assistant",
   content |-> Arr(ContentBlocks(Elems(response.content), 1)),
   usage |-> UsageOf(adapter, response)]

FallbackSchema ==
  Obj(<<Prop("type", Str("object")), Prop("properties", Obj(<<>>))>>)

\* variant: a parsed string is taken as the schema without the "type" test
SchemaObjectUnvalidated(input_schema) ==
  IF input_schema.t = "string"
  THEN LET parsed == JSONparse(input_schema.j) IN
    IF parsed.ok THEN parsed.val ELSE FallbackSchema
  ELSE IF IsNonNullObject(input_schema)
  THEN IF HasProp(input_schema, "type") THEN input_schema ELSE FallbackSchema
  ELSE FallbackSchema

\* the schemaObject chosen for one tool
SchemaObject(input_schema) ==
  IF input_schema.t = "string"
  THEN LET parsed == JSONparse(input_schema.j) IN
    IF parsed.ok
    THEN IF IsNonNullObject(parsed.val) /\ HasProp(parsed.val, "type")
         THEN parsed.val ELSE FallbackSchema
    ELSE FallbackSchema
  ELSE IF IsNonNullObject(input_schema)
  THEN IF HasProp(input_schema, "type") THEN input_schema ELSE FallbackSchema
  ELSE FallbackSchema

\* the mcpAvailableTools.map callback
FormatTool(tool) ==
  Obj(<<Prop("name", Get(tool, "name")),
        Prop("description", Get(tool, "description")),
        Prop("input_schema", SchemaObject(Get(tool, "input_schema")))>>)

FormattedTools(chat) ==
  IF Truthy(chat.mcpAvailableTools) /\ Len(chat.mcpAvailableTools.f) > 0
  THEN Arr([i \in 1..Len(chat.mcpAvailableTools.f) |->
              FormatTool(chat.mcpAvailableTools.f[i].v)])
  ELSE Undefined

\* variant: the prompt message is pushed without the if (chat.prompt) test
MessagesToSendAlways(chat) ==
  Append(chat.responseHistory,
         [role |-> "user", content |-> Arr(<<TextBlock(chat.prompt)>>)])

MessagesToSend(chat) ==
  IF Truthy(chat.prompt)
  THEN Append(chat.responseHistory,
              [role |-> "user", content |-> Arr(<<TextBlock(chat.prompt)>>)])
  ELSE chat.responseHistory

\* the options sendChat hands to generateResponse
SendChatOptions(chat) ==
  [model |-> chat.model,
   messages |-> MessagesToSend(chat),
   maxTokens |-> Or(chat.maxTokens, Undefined),
   budgetTokens |-> Or(chat.budgetTokens, Undefined),
   systemPrompt |-> Or(chat.systemPrompt, Undefined),
   thinkingMode |-> Bool(Coalesce(chat.budgetTokens, Num(0)).n > 0),
   tools |-> FormattedTools(chat)]

(***************************************************************************)
(* Bounds and the inputs the callers and the vendor draw from.             *)
(***************************************************************************)
MaxTokensTop == 3
MaxBudget == 2
MaxTokenCount == 2
MaxBlocks == 2
MaxMsgs == 2
MaxHistory == 2
MaxTools == 2
MaxRespBlocks == 2
MaxInFlight == 2
MaxStarted == 3

\* the sequence of length len that starts at cat[start] and steps through
\* the catalogue cat, a tuple, with a fixed stride, wrapping around
Stepping(cat, start, stride, len) ==
  [i \in 1..len |-> cat[((start - 1 + (i - 1) * stride) % Len(cat)) + 1]]

\* sequences over cat of length at most n: the empty one, every single
\* element, every ordered pair, and the longer ones that continue a pair
\* with the same stride
SeqsUpTo(cat, n) ==
  {Stepping(cat, start, stride, len) :
     start \in 1..Len(cat), stride \in 0..(Len(cat) - 1), len \in 0..n}

ModelConfigs ==
  {[isVision |-> TRUE, isImageGeneration |-> FALSE, isThinking |-> TRUE,
    inputTokenCost |-> Num(15), outputTokenCost |-> Num(75)],
   [isVision |-> TRUE, isImageGeneration |-> FALSE, isThinking |-> FALSE,
    inputTokenCost |-> Num(3), outputTokenCost |-> Num(15)],
   [isVision |-> FALSE, isImageGeneration |-> TRUE, isThinking |-> TRUE,
    inputTokenCost |-> Undefined, outputTokenCost |-> Undefined],
   [isVision |-> FALSE, isImageGeneration |-> FALSE, isThinking |-> FALSE,
    inputTokenCost |-> Num(15), outputTokenCost |-> Undefined],
   [isVision |-> FALSE, isImageGeneration |-> FALSE, isThinking |-> TRUE,
    inputTokenCost |-> Undefined, outputTokenCost |-> Num(75)],
   [isVision |-> TRUE, isImageGeneration |-> TRUE, isThinking |-> FALSE,
    inputTokenCost |-> Num(0), outputTokenCost |-> Num(75)]}

\* content blocks a caller can put in a message
CallerBlocks ==
  <<TextBlock(Str("Hello Claude!")),
   ThinkingBlock(Str("Let me think..."), Str("test-sig")),
   Obj(<<Prop("type", Str("image")), Prop("url", Str("http://example.com/image.png"))>>),
   Obj(<<Prop("type", Str("image_data")), Prop("mimeType", Str("image/jpeg")),
         Prop("base64Data", Str("base64jpegstring"))>>),
   ToolUseBlock(Str("get_weather"), JStr(<<P("{"), P("}")>>))>>

CallerMessages ==
  {[role |-> r, content |-> Arr(c)] :
     r \in {"user", "assistant", "system"}, c \in SeqsUpTo(CallerBlocks, MaxBlocks)}
  \cup {[role |-> r, content |-> Str(x)] : r \in {"user", "system"}, x \in {"plain text", ""}}

HistoryMessages ==
  <<[role |-> "user", content |-> Arr(<<TextBlock(Str("Previous question"))>>)],
   [role |-> "assistant", content |-> Arr(<<TextBlock(Str("Previous answer"))>>)],
   [role |-> "assistant",
    content |-> Arr(<<ThinkingBlock(Str("Let me think..."), Str("test-sig")),
                      TextBlock(Str("Previous answer"))>>)]>>

\* the second argument of sendChat in the README usage: absent, or a
\* temperature in tenths
OverridesSet == {Undefined, Obj(<<Prop("temperature", Num(8))>>)}

MaxTokensValues == {Undefined} \cup {Num(i) : i \in 0..MaxTokensTop}

BudgetValues == {Undefined} \cup {Num(i) : i \in -1..MaxBudget}

\* input_schema values: JSON text that parses or not, objects, other types
SchemaWithType ==
  Obj(<<Prop("type", Str("object")),
        Prop("properties", Obj(<<Prop("city", Obj(<<Prop("type", Str("string"))>>))>>))>>)

SchemaWithoutType == Obj(<<Prop("properties", Obj(<<>>))>>)

Schemas ==
  <<JStr(<<W("not"), W("json")>>),
   JStr(JSONstringify(SchemaWithType)),
   JStr(JSONstringify(SchemaWithoutType)),
   JStr(<<W("null")>>),
   JStr(<<P("["), S("type"), P("]")>>),
   JStr(<<P("{"), S("type"), P(":")>>),
   SchemaWithType,
   SchemaWithoutType,
   Null,
   Undefined,
   Num(5)>>

ToolDefinition(name, schema) ==
  Obj(<<Prop("name", Str(name)), Prop("description", Str("Looks something up")),
        Prop("input_schema", schema)>>)

ToolDefinitions ==
  [i \in 1..Len(Schemas) |-> ToolDefinition("get_weather", Schemas[i])]
  \o <<ToolDefinition("search", SchemaWithType)>>

ToolLists == SeqsUpTo(ToolDefinitions, MaxTools)

BaseOptions ==
  [model |-> "claude-3-opus-20240229",
   messages |-> <<[role |-> "user", content |-> Arr(<<TextBlock(Str("Hello Claude!"))>>)]>>,
   maxTokens |-> Undefined,
   budgetTokens |-> Undefined,
   systemPrompt |-> Undefined,
   thinkingMode |-> Undefined,
   tools |-> Undefined]

\* the options callers pass to generateResponse: each group of fields is
\* varied with the others at their base value; lists of several messages
\* are drawn from HistoryMessages
OptionsSet ==
  {[BaseOptions EXCEPT !.messages = <<m>>] : m \in CallerMessages}
  \cup {[BaseOptions EXCEPT !.messages = m] : m \in SeqsUpTo(HistoryMessages, MaxMsgs)}
  \cup {[BaseOptions EXCEPT !.maxTokens = mt, !.budgetTokens = bt, !.thinkingMode = tm] :
          mt \in MaxTokensValues, bt \in BudgetValues,
          tm \in {Undefined, Bool(FALSE), Bool(TRUE)}}
  \cup {[BaseOptions EXCEPT !.tools = Arr(tl), !.systemPrompt = Str("You are Claude.")] :
          tl \in SeqsUpTo(<<FormatTool(ToolDefinition("get_weather", SchemaWithType))>>, 1)}

BaseChat ==
  [model |-> "claude-3-opus-20240229",
   responseHistory |-> <<>>,
   prompt |-> Str("User prompt"),
   maxTokens |-> Num(MaxTokensTop),
   budgetTokens |-> Null,
   systemPrompt |-> Str("System prompt"),
   mcpAvailableTools |-> Undefined]

\* the chats callers pass to sendChat, varied the same way
Chats ==
  {[BaseChat EXCEPT !.responseHistory = h, !.prompt = p] :
     h \in SeqsUpTo(HistoryMessages, MaxHistory),
     p \in {Undefined, Null, Str(""), Str("Current question")}}
  \cup {[BaseChat EXCEPT !.maxTokens = mt, !.budgetTokens = bt, !.systemPrompt = sp] :
          mt \in MaxTokensValues \cup {Null}, bt \in BudgetValues \cup {Null},
          sp \in {Null}}
  \cup {[BaseChat EXCEPT !.mcpAvailableTools = tl] :
          tl \in {Null} \cup {Arr(l) : l \in ToolLists}}

\* blocks the vendor can answer with
VendorBlocks ==
  <<TextBlock(Str("Hi there!")),
   ThinkingBlock(Str("Assistant is thinking..."), Str("sig-from-vendor")),
   ThinkingBlock(Str("Assistant is thinking..."), Str(AnthropicSignature)),
   ToolUseBlock(Str("get_weather"), Obj(<<Prop("city", Str("Paris"))>>)),
   Obj(<<Prop("type", Str("redacted_thinking")), Prop("data", Str("opaque"))>>)>>

TokenCounts == {Undefined} \cup {Num(i) : i \in 0..MaxTokenCount}

BaseResponse ==
  [content |-> Arr(<<TextBlock(Str("Hi there!"))>>),
   usage |-> [input_tokens |-> Num(MaxTokenCount), output_tokens |-> Num(1)]]

VendorResponses ==
  {[BaseResponse EXCEPT !.content = Arr(c)] : c \in SeqsUpTo(VendorBlocks, MaxRespBlocks)}
  \cup {[BaseResponse EXCEPT !.usage = [input_tokens |-> i, output_tokens |-> o]] :
          i \in TokenCounts, o \in TokenCounts}

VendorErrors == {"rate_limit_error", "authentication_error"}

\* the argument lists of sendChat: every chat alone, and the README's chat
\* with each second argument
SendChatArgs ==
  {<<c, Undefined>> : c \in Chats} \cup {<<BaseChat, ov>> : ov \in OverridesSet}

(***************************************************************************)
(* State.  One adapter, built from modelConfig, and one caller that makes  *)
(* one call at a time.  A call to generateResponse or sendChat is          *)
(* suspended at await this.client.messages.create (pc = "awaiting") until  *)
(* the vendor resolves or rejects the promise; pc = "returned" while the   *)
(* caller holds the outcome of the call.  options and request are locals   *)
(* of the running call, chat is the caller's object, response is the       *)
(* vendor's last resolved value, result the outcome of the last call.      *)
(* resent records that the running call carries back the mapped content of *)
(* response.  overrides is the second argument the caller gave to          *)
(* sendChat.  calls, started and invocations belong to the callers that    *)
(* share the adapter, described with SpecConc below.                       *)
(***************************************************************************)
VARIABLES modelConfig, adapter, pc, op, chat, overrides, options, request, response, result,
          resent, calls, started, invocations

vars ==
  <<modelConfig, adapter, pc, op, chat, overrides, options, request, response, result,
    resent, calls, started, invocations>>

\* the state of the callers that share the adapter
concVars == <<calls, started, invocations>>

NoChat ==
  [model |-> "", responseHistory |-> <<>>, prompt |-> Undefined, maxTokens |-> Undefined,
   budgetTokens |-> Undefined, systemPrompt |-> Undefined, mcpAvailableTools |-> Undefined]

NoOptions ==
  [model |-> "", messages |-> <<>>, maxTokens |-> Undefined, budgetTokens |-> Undefined,
   systemPrompt |-> Undefined, thinkingMode |-> Undefined, tools |-> Undefined]

NoRequest ==
  [model |-> "", messages |-> <<>>, system |-> Undefined, max_tokens |-> Undefined,
   thinking |-> Undefined, tools |-> Undefined]

NoResponse ==
  [content |-> Undefined, usage |-> [input_tokens |-> Undefined, output_tokens |-> Undefined]]

NoAIResponse == [role |-> "", content |-> Undefined, usage |-> Undefined]

NoResult == [status |-> "none", value |-> NoAIResponse, error |-> ""]

Resolved(r) == [status |-> "ok", value |-> r, error |-> ""]

Rejected(e) == [status |-> "error", value |-> NoAIResponse, error |-> e]

\* the vendor has not replied
NoReply == [status |-> "none", value |-> NoResponse, error |-> ""]

\* a caller that is not inside a call; a caller inside a call has, besides,
\* the arguments chat and options, the request sent for it, the vendor's
\* reply to it and the result of the call.  invoked is the number of times
\* the call invoked the vendor
NoCall == [pc |-> "idle", op |-> "none", invoked |-> 0]

\* the callers that can be inside a call of the one adapter at a time
Callers == 1..MaxInFlight

\* no caller has called yet
NoCalls ==
  /\ calls = [i \in Callers |-> NoCall]
  /\ started = 0
  /\ invocations = 0

Init ==
  /\ modelConfig \in ModelConfigs
  /\ adapter = Constructor(modelConfig)
  /\ pc = "idle"
  /\ op = "none"
  /\ chat = NoChat
  /\ overrides = Undefined
  /\ options = NoOptions
  /\ request = NoRequest
  /\ response = NoResponse
  /\ result = NoResult
  /\ resent = FALSE
  /\ NoCalls

\* generateResponse up to the await: the request goes to the vendor client
StartGenerateResponse(opts) ==
  /\ options' = opts
  /\ request' = CreateParams(adapter, opts)
  /\ pc' = "awaiting"
  /\ result' = NoResult

\* a caller calls adapter.generateResponse(options)
GenerateResponse(opts) ==
  /\ pc = "idle"
  /\ op' = "generateResponse"
  /\ StartGenerateResponse(opts)
  /\ UNCHANGED <<modelConfig, adapter, chat, overrides, response, resent, concVars>>

\* a caller puts the content of the response it holds in a message and calls
\* adapter.generateResponse again
ResendResponse ==
  /\ pc = "returned"
  /\ result.status = "ok"
  /\ op' = "generateResponse"
  /\ StartGenerateResponse(
       [BaseOptions EXCEPT
          !.messages = <<[role |-> result.value.role, content |-> result.value.content]>>])
  /\ resent' = TRUE
  /\ chat' = NoChat
  /\ UNCHANGED <<modelConfig, adapter, overrides, response, concVars>>

\* variant: the prompt message is pushed on chat.responseHistory itself
ChatAfterPushInPlace(c) == [c EXCEPT !.responseHistory = MessagesToSend(c)]

\* the caller's chat object once sendChat has run: messagesToSend is a copy
\* of chat.responseHistory, the push goes to the copy, and no field of chat
\* is assigned
ChatAfterSendChat(c) == c

\* a caller calls adapter.sendChat(chat, ov): the method declares the one
\* parameter chat, a second argument is never read
SendChat(c, ov) ==
  /\ pc = "idle"
  /\ op' = "sendChat"
  /\ chat' = ChatAfterSendChat(c)
  /\ overrides' = ov
  /\ StartGenerateResponse(SendChatOptions(c))
  /\ UNCHANGED <<modelConfig, adapter, response, resent, concVars>>

\* the vendor client resolves: the rest of generateResponse runs, and
\* sendChat copies role, content and usage of what it returns
VendorResolves(r) ==
  /\ pc = "awaiting"
  /\ response' = r
  /\ result' = Resolved(AIResponseOf(adapter, r))
  /\ pc' = "returned"
  /\ options' = NoOptions
  /\ request' = NoRequest
  /\ resent' = FALSE
  /\ overrides' = Undefined
  /\ UNCHANGED <<modelConfig, adapter, op, chat, concVars>>

\* the vendor client rejects: nothing catches, the call rejects with e
VendorRejects(e) ==
  /\ pc = "awaiting"
  /\ result' = Rejected(e)
  /\ pc' = "returned"
  /\ options' = NoOptions
  /\ request' = NoRequest
  /\ response' = NoResponse
  /\ resent' = FALSE
  /\ overrides' = Undefined
  /\ UNCHANGED <<modelConfig, adapter, op, chat, concVars>>

\* variant: generateImage resolves instead of throwing
GenerateImageResolves(c) == Resolved(NoAIResponse)

\* the outcome of generateImage(chat)
GenerateImageResult(c) ==
  Rejected(ImageNotSupported)

\* a caller calls adapter.generateImage(chat)
GenerateImage(c) ==
  /\ pc = "idle"
  /\ op' = "generateImage"
  /\ chat' = c
  /\ result' = GenerateImageResult(c)
  /\ pc' = "returned"
  /\ UNCHANGED <<modelConfig, adapter, overrides, options, request, response, resent, concVars>>

\* the outcome of adapter.sendMCPChat(chat, tool): the class has no such
\* method, the call expression throws
SendMCPChatResult(c, tool) == Rejected(NotAFunction)

\* a caller calls adapter.sendMCPChat(chat, tool)
SendMCPChat(c, tool) ==
  /\ pc = "idle"
  /\ op' = "sendMCPChat"
  /\ chat' = c
  /\ result' = SendMCPChatResult(c, tool)
  /\ pc' = "returned"
  /\ UNCHANGED <<modelConfig, adapter, overrides, options, request, response, resent, concVars>>

\* the caller drops the outcome and its chat before its next call
Collect ==
  /\ pc = "returned"
  /\ pc' = "idle"
  /\ op' = "none"
  /\ chat' = NoChat
  /\ response' = NoResponse
  /\ result' = NoResult
  /\ UNCHANGED <<modelConfig, adapter, overrides, options, request, resent, concVars>>

Next ==
  \/ \E opts \in OptionsSet : GenerateResponse(opts)
  \/ ResendResponse
  \/ \E a \in SendChatArgs : SendChat(a[1], a[2])
  \/ \E r \in VendorResponses : VendorResolves(r)
  \/ \E e \in VendorErrors : VendorRejects(e)
  \/ \E c \in {BaseChat, NoChat} : GenerateImage(c)
  \/ \E c \in {BaseChat, NoChat}, tool \in {ToolDefinitions[i] : i \in 1..Len(ToolDefinitions)} : SendMCPChat(c, tool)
  \/ Collect

Spec == Init /\ [][Next]_vars

(***************************************************************************)
(* Several callers on one adapter.  Each caller has its own call, with its *)
(* own locals; the adapter object is the one thing they share.  A call is  *)
(* suspended once, at await this.client.messages.create, and another       *)
(* caller can start or finish a call meanwhile.  started counts the        *)
(* generateResponse and sendChat calls made, invocations the calls of      *)
(* this.client.messages.create.                                            *)
(***************************************************************************)
ConcModelConfigs ==
  {mc \in ModelConfigs : Truthy(mc.inputTokenCost) /\ Truthy(mc.outputTokenCost)}

ConcOptions ==
  {BaseOptions,
   [BaseOptions EXCEPT !.maxTokens = Num(MaxTokensTop), !.thinkingMode = Bool(TRUE),
                       !.messages = <<HistoryMessages[1], HistoryMessages[3]>>]}

ConcChats ==
  {[BaseChat EXCEPT !.budgetTokens = Num(MaxBudget), !.responseHistory = <<HistoryMessages[1]>>]}

ConcResponses ==
  {BaseResponse, [BaseResponse EXCEPT !.content = Arr(<<VendorBlocks[2], VendorBlocks[4]>>)]}

\* the variables of the single caller, which stay as constructed
soloVars == <<pc, op, chat, overrides, options, request, response, result, resent>>

InitConc ==
  /\ Init
  /\ modelConfig \in ConcModelConfigs

\* variant: generateResponse remembers on the adapter that thinking was asked
AdapterAfterCallCaching(a, opts) ==
  [a EXCEPT !.isThinkingCapable = a.isThinkingCapable \/ Truthy(opts.thinkingMode)]

\* the adapter object once generateResponse has run to its await: the
\* method reads this.client and this.isThinkingCapable and assigns no field
AdapterAfterCall(a, opts) == a

\* variant: a vendor failure is caught and rethrown as an error of the adapter
RejectionWrapped(e) == Rejected("Anthropic request failed")

\* the outcome of a call whose await rejects with e: nothing catches
RejectionOf(e) == Rejected(e)

\* variant: a rejected vendor call is made once more
InvokedAfterRetry(n) == n + 1

\* the vendor invocations of a call once its await has rejected: the one
\* create call is in no loop and no catch block
InvokedAfterRejection(n) == n

\* generateResponse up to the await, for caller i
ConcStart(i, opname, c, opts) ==
  /\ calls[i].pc = "idle"
  /\ started < MaxStarted
  /\ calls' = [calls EXCEPT ![i] =
                 [pc |-> "awaiting", op |-> opname, chat |-> c, options |-> opts,
                  request |-> CreateParams(adapter, opts), reply |-> NoReply,
                  result |-> NoResult, invoked |-> 1]]
  /\ adapter' = AdapterAfterCall(adapter, opts)
  /\ started' = started + 1
  /\ invocations' = invocations + 1
  /\ UNCHANGED <<modelConfig, soloVars>>

\* caller i calls adapter.generateResponse(opts)
ConcGenerateResponse(i, opts) == ConcStart(i, "generateResponse", NoChat, opts)

\* caller i calls adapter.sendChat(c)
ConcSendChat(i, c) == ConcStart(i, "sendChat", ChatAfterSendChat(c), SendChatOptions(c))

\* caller i calls adapter.generateImage(c)
ConcGenerateImage(i, c) ==
  /\ calls[i].pc = "idle"
  /\ calls' = [calls EXCEPT ![i] =
                 [pc |-> "returned", op |-> "generateImage", chat |-> c, options |-> NoOptions,
                  request |-> NoRequest, reply |-> NoReply,
                  result |-> GenerateImageResult(c), invoked |-> 0]]
  /\ UNCHANGED <<modelConfig, adapter, started, invocations, soloVars>>

\* the vendor resolves the call of caller i
ConcVendorResolves(i, r) ==
  /\ calls[i].pc = "awaiting"
  /\ calls' = [calls EXCEPT ![i].pc = "returned",
                            ![i].reply = [status |-> "ok", value |-> r, error |-> ""],
                            ![i].result = Resolved(AIResponseOf(adapter, r))]
  /\ UNCHANGED <<modelConfig, adapter, started, invocations, soloVars>>

\* the vendor rejects the call of caller i
ConcVendorRejects(i, e) ==
  /\ calls[i].pc = "awaiting"
  /\ calls' = [calls EXCEPT ![i].pc = "returned",
                            ![i].reply = [status |-> "error", value |-> NoResponse, error |-> e],
                            ![i].result = RejectionOf(e),
                            ![i].invoked = InvokedAfterRejection(calls[i].invoked)]
  /\ invocations' = invocations + (InvokedAfterRejection(calls[i].invoked) - calls[i].invoked)
  /\ UNCHANGED <<modelConfig, adapter, started, soloVars>>

\* caller i drops the outcome of its call
ConcReturn(i) ==
  /\ calls[i].pc = "returned"
  /\ calls' = [calls EXCEPT ![i] = NoCall]
  /\ UNCHANGED <<modelConfig, adapter, started, invocations, soloVars>>

NextConc ==
  \/ \E i \in Callers, opts \in ConcOptions : ConcGenerateResponse(i, opts)
  \/ \E i \in Callers, c \in ConcChats : ConcSendChat(i, c)
  \/ \E i \in Callers : ConcGenerateImage(i, BaseChat)
  \/ \E i \in Callers, r \in ConcResponses : ConcVendorResolves(i, r)
  \/ \E i \in Callers, e \in VendorErrors : ConcVendorRejects(i, e)
  \/ \E i \in Callers : ConcReturn(i)

SpecConc == InitConc /\ [][NextConc]_vars

(***************************************************************************)
(* Properties.                                                             *)
(***************************************************************************)
InSendChat == pc = "awaiting" /\ op = "sendChat"

\* a prompt is non-empty when it is a string of at least one character
NonEmptyPrompt(p) == p.t = "string" /\ p.s # ""

\* C1: sendChat calls generateResponse with chat.responseHistory, same
\* messages in the same order, followed by exactly one user message whose
\* content is a single text block holding chat.prompt when the prompt is
\* non-empty, and with chat.responseHistory alone when the prompt is empty
\* or absent.
C1_SendChatMessages ==
  InSendChat =>
    LET h == chat.responseHistory
        m == options.messages
    IN IF NonEmptyPrompt(chat.prompt)
       THEN /\ Len(m) = Len(h) + 1
            /\ \A i \in 1..Len(h) : m[i] = h[i]
            /\ m[Len(m)].role = "user"
            /\ Len(m[Len(m)].content.f) = 1
            /\ m[Len(m)].content.f[1].v = TextBlock(chat.prompt)
       ELSE m = h

C1_Witness ==
  /\ InSendChat
  /\ NonEmptyPrompt(chat.prompt)
  /\ Len(chat.responseHistory) = MaxHistory
  /\ Len(options.messages) = MaxHistory + 1

IsPositive(x) == x.t = "number" /\ x.n > 0

\* C2: sendChat calls generateResponse with thinkingMode equal to
\* (chat.budgetTokens > 0); a positive budgetTokens is passed through
\* unchanged, and whenever thinkingMode is false no budgetTokens value is
\* passed.
C2_ThinkingModeAndBudget ==
  InSendChat =>
    /\ options.thinkingMode = Bool(IsPositive(chat.budgetTokens))
    /\ IsPositive(chat.budgetTokens) => options.budgetTokens = chat.budgetTokens
    /\ ~IsPositive(chat.budgetTokens) => options.budgetTokens = Undefined

\* C3: sendMCPChat(chat, tool) fails for every chat and every tool, and the
\* failure carries the fixed message.
C3_SendMCPChatFixedMessage ==
  (pc = "returned" /\ op = "sendMCPChat") =>
    /\ result.status = "error"
    /\ result.error = "Direct MCP tool execution is not handled within the AIVendorAdapter. The calling application must manage tool definition, execution, and result submission."

\* C4: generateImage(chat) on an adapter built from a ModelConfig with
\* isImageGeneration = FALSE fails for every chat with the message "Image
\* generation not supported by Anthropic" and never returns an image.
C4_GenerateImageFails ==
  (pc = "returned" /\ op = "generateImage" /\ ~modelConfig.isImageGeneration) =>
    /\ result.status = "error"
    /\ result.error = "Image generation not supported by Anthropic"

C4_Witness ==
  /\ pc = "returned"
  /\ op = "generateImage"
  /\ ~modelConfig.isImageGeneration
  /\ chat = BaseChat
  /\ result.status = "error"

C6_ThinkingGatedByCapability ==
  pc = "awaiting" =>
    /\ ~adapter.isThinkingCapable => request.thinking = Undefined
    /\ adapter.isThinkingCapable =>
         (request.thinking # Undefined <=> options.thinkingMode = Bool(TRUE))
    /\ request.thinking # Undefined => Get(request.thinking, "type") = Str("enabled")

C6_Witness ==
  /\ pc = "awaiting"
  /\ ~adapter.isThinkingCapable
  /\ options.thinkingMode = Bool(TRUE)
  /\ IsPositive(options.budgetTokens)
  /\ request.thinking = Undefined

\* C7: whenever thinkingMode is honored, the budget sent is
\* options.budgetTokens if that is positive, and otherwise (absent, zero or
\* negative) floor(maxTokens / 2), with maxTokens taken as 1024 when unset.
C7_BudgetSent ==
  (pc = "awaiting" /\ request.thinking # Undefined) =>
    LET maxTokens == IF options.maxTokens.t = "number"
                     THEN options.maxTokens.n ELSE 1024
    IN Get(request.thinking, "budget_tokens") =
         IF IsPositive(options.budgetTokens) THEN options.budgetTokens
         ELSE Num(maxTokens \div 2)

\* C8: the response carries a usage record exactly when the vendor response
\* reports both token counts and the ModelConfig configured both rates;
\* when present, totalCost = inputCost + outputCost, inputCost comes from
\* the input count and input rate, outputCost from the output count and
\* output rate.
C8_UsageExactlyWhenKnown ==
  (pc = "returned" /\ result.status = "ok") =>
    LET known == /\ response.usage.input_tokens.t = "number"
                 /\ response.usage.output_tokens.t = "number"
                 /\ modelConfig.inputTokenCost.t = "number"
                 /\ modelConfig.outputTokenCost.t = "number"
        usage == result.value.usage
    IN /\ usage # Undefined <=> known
       /\ usage # Undefined =>
            /\ Get(usage, "inputCost") =
                 Num(response.usage.input_tokens.n * modelConfig.inputTokenCost.n)
            /\ Get(usage, "outputCost") =
                 Num(response.usage.output_tokens.n * modelConfig.outputTokenCost.n)
            /\ Get(usage, "totalCost").n =
                 Get(usage, "inputCost").n + Get(usage, "outputCost").n

IsTextOrThinking(b) == Get(b, "type") \in {Str("text"), Str("thinking")}

\* C9: a text block with text t, or a thinking block with text r and
\* signature s, of a vendor response reaches the vendor again, when the
\* block returned for it is sent in a later message, as a text block with
\* the same t, respectively a thinking block with the same r and s.
C9_RoundTrip ==
  (pc = "awaiting" /\ resent) =>
    LET kept == SelectSeq(Elems(response.content), IsTextOrThinking)
        sent == request.messages[1].content
    IN Len(kept) > 0 =>
         /\ sent.t = "array"
         /\ Len(sent.f) = Len(kept)
         /\ \A i \in 1..Len(kept) :
              /\ Get(sent.f[i].v, "type") = Get(kept[i], "type")
              /\ Get(sent.f[i].v, "text") = Get(kept[i], "text")
              /\ Get(sent.f[i].v, "thinking") = Get(kept[i], "thinking")
              /\ Get(sent.f[i].v, "signature") = Get(kept[i], "signature")

\* the schema the tool at position i must carry
ExpectedSchema(schema) ==
  IF schema \in {SchemaWithType, JStr(JSONstringify(SchemaWithType))}
  THEN SchemaWithType
  ELSE Obj(<<Prop("type", Str("object")), Prop("properties", Obj(<<>>))>>)

\* C10: sendChat does not fail because of a tool's input_schema; the tool
\* list passed to generateResponse has the same length and order, name and
\* description kept; a schema that is a string of invalid JSON, or a value
\* without a type field, or neither string nor object, is replaced by
\* {type: "object", properties: {}}; an object with a type field, given
\* directly or as a JSON string, is carried as it is.
C10_ToolSchemas ==
  /\ (op = "sendChat" /\ result.status = "error") => result.error \in VendorErrors
  /\ InSendChat =>
       LET given == IF chat.mcpAvailableTools.t = "array"
                    THEN Elems(chat.mcpAvailableTools) ELSE <<>>
           passed == IF options.tools.t = "array" THEN Elems(options.tools) ELSE <<>>
       IN /\ Len(passed) = Len(given)
          /\ \A i \in 1..Len(given) :
               /\ Get(passed[i], "name") = Get(given[i], "name")
               /\ Get(passed[i], "description") = Get(given[i], "description")
               /\ Get(passed[i], "input_schema") =
                    ExpectedSchema(Get(given[i], "input_schema"))

C10_Witness ==
  /\ InSendChat
  /\ chat.mcpAvailableTools.t = "array"
  /\ Len(chat.mcpAvailableTools.f) = MaxTools
  /\ Get(chat.mcpAvailableTools.f[1].v, "input_schema") = JStr(<<W("not"), W("json")>>)
  /\ Get(chat.mcpAvailableTools.f[2].v, "input_schema") = JStr(JSONstringify(SchemaWithType))
  /\ Get(options.tools.f[1].v, "input_schema") =
       Obj(<<Prop("type", Str("object")), Prop("properties", Obj(<<>>))>>)
  /\ Get(options.tools.f[2].v, "input_schema") = SchemaWithType

\* the value a request carries under key, undefined when it has no such key
RequestKey(req, key) == IF key \in DOMAIN req THEN req[key] ELSE Undefined

\* C11: sendChat(chat, overrides) applies the per-call overrides: a
\* temperature the caller supplies is carried, with the caller's value, by
\* the options that reach generateResponse and by the request that reaches
\* the vendor client.
C11_OverridesApplied ==
  (InSendChat /\ HasProp(overrides, "temperature")) =>
    /\ RequestKey(options, "temperature") = Get(overrides, "temperature")
    /\ RequestKey(request, "temperature") = Get(overrides, "temperature")

\* C12: in every state reachable from construction by generateResponse,
\* sendChat and generateImage calls, successful or failing, the adapter's
\* three capability flags and its two token costs equal the isVision,
\* isImageGeneration, isThinking, inputTokenCost and outputTokenCost of the
\* ModelConfig it was constructed with.
C12_AdapterReflectsModelConfig ==
  /\ adapter.isVisionCapable = modelConfig.isVision
  /\ adapter.isImageGenerationCapable = modelConfig.isImageGeneration
  /\ adapter.isThinkingCapable = modelConfig.isThinking
  /\ adapter.inputTokenCost = modelConfig.inputTokenCost
  /\ adapter.outputTokenCost = modelConfig.outputTokenCost

\* generateResponse is suspended at the vendor call, for either operation
AtVendorCall == pc = "awaiting"

\* a block of the sent content is the given block: same kind, same text,
\* same thinking text and signature
SameBlock(sent, given) ==
  /\ Get(sent, "type") = Get(given, "type")
  /\ Get(sent, "text") = Get(given, "text")
  /\ Get(sent, "thinking") = Get(given, "thinking")
  /\ Get(sent, "signature") = Get(given, "signature")

\* the text and thinking blocks of a message, in their order
TextAndThinking(msg) ==
  IF msg.content.t = "array" THEN SelectSeq(Elems(msg.content), IsTextOrThinking) ELSE <<>>

\* message i is sent with exactly its text and thinking blocks
KeptBlocksSent(i) ==
  LET kept == TextAndThinking(options.messages[i])
      sent == request.messages[i].content
  IN Len(kept) > 0 =>
       /\ sent.t = "array"
       /\ Len(sent.f) = Len(kept)
       /\ \A k \in 1..Len(kept) : SameBlock(sent.f[k].v, kept[k])

\* C14 as stated: for every message with at least one text or thinking
\* block the content sent is exactly the subsequence of its text and
\* thinking blocks, in order, each once and unchanged, every other block
\* dropped; the outbound list has the same length and the same roles in the
\* same order as the input messages.
C14_OutboundMapping ==
  AtVendorCall =>
    /\ Len(request.messages) = Len(options.messages)
    /\ \A i \in 1..Len(options.messages) :
         /\ request.messages[i].role = options.messages[i].role
         /\ KeptBlocksSent(i)

\* C14, amended: the content and the length are as stated; the role sent is
\* "assistant" for a message whose role is "assistant" and "user" for a
\* message of any other role.
C14_OutboundMappingRoles ==
  AtVendorCall =>
    /\ Len(request.messages) = Len(options.messages)
    /\ \A i \in 1..Len(options.messages) :
         /\ request.messages[i].role =
              (IF options.messages[i].role = "assistant" THEN "assistant" ELSE "user")
         /\ KeptBlocksSent(i)

\* a message of another role, with a block that is kept and one that is
\* dropped, is at the vendor
C14_Witness ==
  /\ AtVendorCall
  /\ Len(options.messages) = 1
  /\ options.messages[1].role = "system"
  /\ options.messages[1].content.t = "array"
  /\ Len(options.messages[1].content.f) = MaxBlocks
  /\ Len(TextAndThinking(options.messages[1])) = 1
  /\ request.messages[1].role = "user"
  /\ Len(request.messages[1].content.f) = 1

\* a content that is not empty: a string of at least one character, or an
\* array of at least one block
NonEmptyContent(c) ==
  \/ c.t = "string" /\ (c.s # "" \/ c.j # <<>>)
  \/ c.t = "array" /\ Len(c.f) > 0

\* the content sent is one text holding the serialized form of the given
\* content: parsing it gives the given content back
SerializedFallback(sent, given) ==
  /\ sent.t = "string"
  /\ sent.j # <<>>
  /\ JSONparse(sent.j).ok
  /\ JSONparse(sent.j).val = given

\* C15: no message generateResponse sends to the vendor has empty content;
\* a message whose blocks are all dropped by the outbound mapping is sent as
\* one non-empty fallback text holding the serialized form of its original
\* content, and every other message is sent with a non-empty content.
C15_NoEmptyContent ==
  AtVendorCall =>
    \A i \in 1..Len(request.messages) :
      LET given == options.messages[i].content
          sent == request.messages[i].content
      IN /\ NonEmptyContent(sent)
         /\ (given.t = "array" /\ Len(TextAndThinking(options.messages[i])) = 0) =>
              SerializedFallback(sent, given)

\* the block kinds the inbound loop maps
IsRecognized(b) == Get(b, "type") \in {Str("text"), Str("thinking"), Str("tool_use")}

\* a returned block is the mapping of a vendor block: same kind, same text,
\* same thinking text, and for tool_use the same name and an input that is
\* a string of JSON which parses to the vendor's input
MappedInbound(returned, block) ==
  /\ Get(returned, "type") = Get(block, "type")
  /\ Get(returned, "text") = Get(block, "text")
  /\ Get(returned, "thinking") = Get(block, "thinking")
  /\ Get(block, "type") = Str("tool_use") =>
       /\ Get(returned, "name") = Get(block, "name")
       /\ Get(returned, "input").t = "string"
       /\ JSONparse(Get(returned, "input").j).ok
       /\ JSONparse(Get(returned, "input").j).val = Get(block, "input")

\* the vendor has resolved the call
VendorReplied == pc = "returned" /\ op \in {"generateResponse", "sendChat"} /\ response # NoResponse

\* C16: for every vendor response content array, the returned content is
\* the sequence of its text, thinking and tool_use blocks mapped one to one
\* in response order, tool_use as its name plus its input serialized to a
\* JSON string, every block of another kind skipped; the call does not
\* fail whatever the block kinds are, and the returned role is assistant.
C16_InboundMapping ==
  VendorReplied =>
    LET recognized == SelectSeq(Elems(response.content), IsRecognized)
        returned == result.value.content
    IN /\ result.status = "ok"
       /\ result.value.role = "assistant"
       /\ returned.t = "array"
       /\ Len(returned.f) = Len(recognized)
       /\ \A k \in 1..Len(recognized) : MappedInbound(returned.f[k].v, recognized[k])

\* a response of a tool_use block and a block of an unknown kind has been
\* mapped
C16_Witness ==
  /\ VendorReplied
  /\ Len(response.content.f) = MaxRespBlocks
  /\ \E i \in 1..Len(response.content.f) :
       Get(response.content.f[i].v, "type") = Str("tool_use")
  /\ \E i \in 1..Len(response.content.f) : ~IsRecognized(response.content.f[i].v)
  /\ Len(result.value.content.f) = MaxRespBlocks - 1
  /\ Get(result.value.content.f[1].v, "type") = Str("tool_use")

\* C18: sendChat leaves the caller's chat unchanged: when sendChat is
\* called with a chat, and from then until the call has resolved or
\* rejected, the chat is the one given, with the same responseHistory,
\* prompt, budgetTokens, maxTokens and mcpAvailableTools; neither the
\* prompt message nor the response is appended to responseHistory.
C18_ChatUnchanged ==
  [][/\ (pc = "idle" /\ op' = "sendChat") =>
          \A a \in SendChatArgs : SendChat(a[1], a[2]) => chat' = a[1]
     /\ InSendChat => chat' = chat]_vars

\* a sendChat call with a full history and a prompt has returned a response
C18_Witness ==
  /\ pc = "returned"
  /\ op = "sendChat"
  /\ result.status = "ok"
  /\ Len(chat.responseHistory) = MaxHistory
  /\ NonEmptyPrompt(chat.prompt)
  /\ Len(result.value.content.f) > 0

\* caller i is inside, or has the outcome of, a call that goes to the vendor
IsVendorCall(i) == calls[i].pc # "idle" /\ calls[i].op \in {"generateResponse", "sendChat"}

\* C13: if the vendor client's call fails, generateResponse, and sendChat
\* likewise, fails with that same failure value, returns no response, and
\* the vendor client is not invoked a second time.
C13_FailurePropagates ==
  \A i \in Callers :
    (IsVendorCall(i) /\ calls[i].reply.status = "error") =>
      /\ calls[i].result.status = "error"
      /\ calls[i].result.error = calls[i].reply.error
      /\ calls[i].result.value = NoAIResponse
      /\ calls[i].invoked = 1

\* a generateResponse call and a sendChat call have failed with different
\* vendor failures
C13_Witness ==
  \E i, j \in Callers :
    /\ calls[i].pc = "returned" /\ calls[i].op = "generateResponse"
    /\ calls[j].pc = "returned" /\ calls[j].op = "sendChat"
    /\ calls[i].reply.status = "error" /\ calls[j].reply.status = "error"
    /\ calls[i].result.status = "error" /\ calls[j].result.status = "error"
    /\ calls[i].result.error # calls[j].result.error

\* C17: each generateResponse call and each sendChat call invokes the
\* vendor client exactly once, whether it succeeds or fails, generateImage
\* invokes it zero times, and the number of vendor invocations equals the
\* number of generateResponse plus sendChat calls made.
C17_OneInvocationPerCall ==
  /\ \A i \in Callers :
       /\ IsVendorCall(i) => calls[i].invoked = 1
       /\ calls[i].op = "generateImage" => calls[i].invoked = 0
  /\ invocations = started

\* after MaxStarted calls, one has failed and a generateImage call has
\* returned
C17_Witness ==
  /\ started = MaxStarted
  /\ invocations = MaxStarted
  /\ \E i, j \in Callers :
       /\ calls[i].pc = "returned" /\ calls[i].op = "generateImage"
       /\ calls[j].pc = "returned" /\ calls[j].op = "sendChat"
       /\ calls[j].reply.status = "error"

\* the options generateResponse gets in the call of caller i
OptionsOfCall(i) ==
  IF calls[i].op = "sendChat" THEN SendChatOptions(calls[i].chat) ELSE calls[i].options

\* C19: for any interleaving of calls suspended at the vendor at the same
\* time, after any earlier calls, the request each call sends and the
\* response it returns are those of the same call run alone on an adapter
\* freshly constructed from the same ModelConfig, with the same reply.
C19_NoInterference ==
  \A i \in Callers :
    IsVendorCall(i) =>
      /\ calls[i].request = CreateParams(Constructor(modelConfig), OptionsOfCall(i))
      /\ calls[i].reply.status = "ok" =>
           calls[i].result = Resolved(AIResponseOf(Constructor(modelConfig), calls[i].reply.value))
      /\ calls[i].reply.status = "error" => calls[i].result = Rejected(calls[i].reply.error)
      /\ calls[i].reply.status = "none" => calls[i].result = NoResult

\* after earlier calls, a call has got its response while another call,
\* with another request, is suspended at the vendor
C19_Witness ==
  /\ started = MaxStarted
  /\ \E i, j \in Callers :
       /\ calls[i].pc = "returned" /\ calls[i].reply.status = "ok"
       /\ calls[i].op = "sendChat"
       /\ calls[j].pc = "awaiting"
       /\ Truthy(calls[j].options.thinkingMode)
       /\ calls[i].request # calls[j].request

====
